---------------------------- MODULE Spec2Model ----------------------------
(***************************************************************************)
(* CompilerLinker (src/src/main.rs): one invocation of the link creator.   *)
(* The state is the parsed command line, the build's target platform, the  *)
(* file-system entries at the candidate link paths, the position of the    *)
(* run, the locals of create_junction (wide strings, reparse buffer,       *)
(* directory handle), the Result handed back to main, the process exit     *)
(* status, and a record of the platform primitives called so far.          *)
(***************************************************************************)
EXTENDS Integers, Naturals, Sequences, FiniteSets, TLC

(***************************************************************************)
(* Bounds of the model.                                                    *)
(***************************************************************************)
\* longest short target path, in code points
MaxLen == 2

\* code points a path is made of: 'C' (one unit, high byte zero) and
\* U+1F600 (a surrogate pair D83D DE00 in the wide encoding)
Chars == {67, 128512}

\* lengths of the long targets: the longest one whose declared data length
\* still fits 16 bits, the first one that does not, and the first one whose
\* substitute-name length does not
LongLens == {16380, 16381, 32768}

\* candidate link paths (argv.src)
LinkPaths == {<<67>>, <<67, 128512>>}

ShortPaths == UNION {[1..n -> Chars] : n \in 0..MaxLen}

LongPaths == {[i \in 1..n |-> 67] : n \in LongLens}

(***************************************************************************)
(* Little-endian integer encoding (u16::to_le_bytes, `as u16`).            *)
(***************************************************************************)
as_u16(x) == x % 65536

u16_to_le_bytes(x) == <<x % 256, (x \div 256) % 256>>

u16_from_le_bytes(b, off) == b[off + 1] + 256 * b[off + 2]

\* IO_REPARSE_TAG_MOUNT_POINT = 0xA0000003, kept as its two 16-bit halves
\* (high word 0xA000, low word 0x0003)
IO_REPARSE_TAG_MOUNT_POINT == <<40960, 3>>

\* u32::to_le_bytes of a value given as <<high word, low word>>
u32_to_le_bytes(x) == u16_to_le_bytes(x[2]) \o u16_to_le_bytes(x[1])

REPARSE_JUNCTION_DATA_BUFFER_HEADER_SIZE == 8

(***************************************************************************)
(* OsStr::encode_wide: one 16-bit unit per code point below U+10000, a     *)
(* surrogate pair above.  The sequence is split in halves so that long     *)
(* paths do not nest deeply; a recursive function, so that each half is    *)
(* computed once.                                                          *)
(***************************************************************************)
encode_wide_char(c) ==
    IF c < 65536 THEN <<c>>
    ELSE <<55296 + ((c - 65536) \div 1024), 56320 + ((c - 65536) % 1024)>>

encode_wide_rec[s \in Seq(Nat)] ==
    IF Len(s) = 0 THEN <<>>
    ELSE IF Len(s) = 1 THEN encode_wide_char(s[1])
    ELSE LET h == Len(s) \div 2
         IN  encode_wide_rec[SubSeq(s, 1, h)] \o encode_wide_rec[SubSeq(s, h + 1, Len(s))]

encode_wide(s) == encode_wide_rec[s]

utf16_encode(s) == encode_wide(s) \o <<0>>

(***************************************************************************)
(* Result<_, LinkError>                                                    *)
(***************************************************************************)
Ok == [ok |-> TRUE, message |-> "", exit_code |-> 0]

Err(m, c) == [ok |-> FALSE, message |-> m, exit_code |-> c]

Pending == [ok |-> FALSE, message |-> "pending", exit_code |-> -1]

(***************************************************************************)
(* create_reparse_data: the buffer is zero-filled, then the fields are     *)
(* copied into it at their offsets (0-based offset o = i - 1).             *)
(***************************************************************************)
\* a variant that counts the substitute name once
reparse_data_len_Single(target_len) ==
    REPARSE_JUNCTION_DATA_BUFFER_HEADER_SIZE + target_len + 4

\* `reparse_data_len` of create_reparse_data
reparse_data_len_of(target_len) ==
    REPARSE_JUNCTION_DATA_BUFFER_HEADER_SIZE
    + target_len * 2
    + 4

create_reparse_data(target) ==
    LET target_len == (Len(target) - 1) * 2
        reparse_data_len == reparse_data_len_of(target_len)
        tag == u32_to_le_bytes(IO_REPARSE_TAG_MOUNT_POINT)
        data_len == u16_to_le_bytes(as_u16(reparse_data_len))
        path_offset == u16_to_le_bytes(0)
        path_len == u16_to_le_bytes(as_u16(target_len))
        buffer == [i \in 1..(reparse_data_len + 8) |->
                     LET o == i - 1
                     IN  IF o < 4 THEN tag[o + 1]
                         ELSE IF o < 6 THEN data_len[o - 3]
                         ELSE IF o < 8 THEN 0
                         ELSE IF o < 10 THEN path_offset[o - 7]
                         ELSE IF o < 12 THEN path_len[o - 9]
                         ELSE IF o < 12 + target_len
                              THEN u16_to_le_bytes(target[((o - 12) \div 2) + 1])[((o - 12) % 2) + 1]
                         ELSE 0]
    IN  [ok |-> TRUE, buffer |-> buffer]

(***************************************************************************)
(* parse_link_type                                                         *)
(***************************************************************************)
FlagCount(o) ==
    Cardinality({f \in {"soft", "hard", "symbolic", "junction"} : o[f]})

\* a variant that takes the first flag set when several are given
parse_link_type_FirstWins(o) ==
    LET count == FlagCount(o)
    IN  IF count = 0
        THEN [ok |-> FALSE, link_type |-> "None",
              message |-> "No link type specified. Use --soft, --hard, --symbolic, or --junction.",
              exit_code |-> 1]
        ELSE [ok |-> TRUE,
              link_type |-> IF o.soft THEN "Soft"
                            ELSE IF o.hard THEN "Hard"
                            ELSE IF o.symbolic THEN "Symbolic"
                            ELSE "Junction",
              message |-> "", exit_code |-> 0]

parse_link_type(o) ==
    LET count == FlagCount(o)
    IN  IF count = 0
        THEN [ok |-> FALSE, link_type |-> "None",
              message |-> "No link type specified. Use --soft, --hard, --symbolic, or --junction.",
              exit_code |-> 1]
        ELSE IF count = 1
        THEN [ok |-> TRUE,
              link_type |-> IF o.soft THEN "Soft"
                            ELSE IF o.hard THEN "Hard"
                            ELSE IF o.symbolic THEN "Symbolic"
                            ELSE "Junction",
              message |-> "", exit_code |-> 0]
        ELSE [ok |-> FALSE, link_type |-> "None",
              message |-> "Multiple link types specified. Choose only one.",
              exit_code |-> 1]

(***************************************************************************)
(* State                                                                   *)
(***************************************************************************)
VARIABLES
    opts,          \* CliOpts: src, dst and the four flags
    platform,      \* cfg of the build: "windows" or "other"
    fs,            \* LinkPaths -> kind of entry at that path
    pc,            \* position of the run
    link_type,     \* LinkType chosen by parse_link_type, "None" before
    link_wide,     \* create_junction: utf16_encode(link)
    target_wide,   \* create_junction: utf16_encode(target)
    reparse_data,  \* create_junction: the buffer, <<>> before it is built
    handle,        \* create_junction: "none", "open" or "closed"
    result,        \* Result returned by create_link
    exit_code,     \* process exit status, -1 while running
    output,        \* what was written to stdout / stderr
    calls          \* platform primitives called so far, with their outcome

vars == <<opts, platform, fs, pc, link_type, link_wide, target_wide,
          reparse_data, handle, result, exit_code, output, calls>>

CliOpts(targets) ==
    [src : LinkPaths, dst : targets,
     soft : BOOLEAN, hard : BOOLEAN, symbolic : BOOLEAN, junction : BOOLEAN]

\* any command line whose target is a short or a long path, the short
\* targets taken first
Init ==
    /\ \/ opts \in CliOpts(ShortPaths)
       \/ opts \in CliOpts(LongPaths)
    /\ platform \in {"windows", "other"}
    /\ fs \in [LinkPaths -> {"absent", "existing"}]
    /\ pc = "main"
    /\ link_type = "None"
    /\ link_wide = <<>>
    /\ target_wide = <<>>
    /\ reparse_data = <<>>
    /\ handle = "none"
    /\ result = Pending
    /\ exit_code = -1
    /\ output = <<>>
    /\ calls = <<>>

(***************************************************************************)
(* main, first half: parse the flags; on error report and exit.            *)
(***************************************************************************)
Main_ParseLinkType ==
    /\ pc = "main"
    /\ LET r == parse_link_type(opts)
       IN  IF r.ok
           THEN /\ link_type' = r.link_type
                /\ pc' = "create_link"
                /\ UNCHANGED <<exit_code, output>>
           ELSE /\ output' = Append(output, [stream |-> "stderr", text |-> r.message])
                /\ exit_code' = r.exit_code
                /\ pc' = "exited"
                /\ UNCHANGED link_type
    /\ UNCHANGED <<opts, platform, fs, link_wide, target_wide, reparse_data,
                   handle, result, calls>>

(***************************************************************************)
(* create_link: the three single-call kinds, and the platform guard.       *)
(***************************************************************************)
PrimitiveOf(lt) ==
    IF lt = "Symbolic" THEN "symlink_file"
    ELSE IF lt = "Hard" THEN "hard_link"
    ELSE "symlink_dir"

\* a variant in which the hard-link arm carries the symbolic-link code
ErrorOf_HardAsSymbolic(lt) ==
    IF lt = "Symbolic" THEN Err("Failed to create symbolic link", 3)
    ELSE IF lt = "Hard" THEN Err("Failed to create hard link", 3)
    ELSE Err("Failed to create soft link", 5)

ErrorOf(lt) ==
    IF lt = "Symbolic" THEN Err("Failed to create symbolic link", 3)
    ELSE IF lt = "Hard" THEN Err("Failed to create hard link", 4)
    ELSE Err("Failed to create soft link", 5)

CreateLink_Unsupported ==
    /\ pc = "create_link"
    /\ platform # "windows"
    /\ result' = Err("This utility only works on Windows.", 7)
    /\ pc' = "main_report"
    /\ UNCHANGED <<opts, platform, fs, link_type, link_wide, target_wide,
                   reparse_data, handle, exit_code, output, calls>>

CreateLink_Primitive ==
    /\ pc = "create_link"
    /\ platform = "windows"
    /\ link_type \in {"Symbolic", "Hard", "Soft"}
    /\ \E success \in BOOLEAN :
          /\ success => fs[opts.src] = "absent"
          /\ calls' = Append(calls, [op |-> PrimitiveOf(link_type), ok |-> success])
          /\ IF success
             THEN /\ fs' = [fs EXCEPT ![opts.src] = PrimitiveOf(link_type)]
                  /\ result' = Ok
             ELSE /\ fs' = fs
                  /\ result' = ErrorOf(link_type)
    /\ pc' = "main_report"
    /\ UNCHANGED <<opts, platform, link_type, link_wide, target_wide,
                   reparse_data, handle, exit_code, output>>

CreateLink_Junction ==
    /\ pc = "create_link"
    /\ platform = "windows"
    /\ link_type = "Junction"
    /\ pc' = "create_junction"
    /\ UNCHANGED <<opts, platform, fs, link_type, link_wide, target_wide,
                   reparse_data, handle, result, exit_code, output, calls>>

(***************************************************************************)
(* create_junction(target = dst, link = src)                               *)
(***************************************************************************)
\* the path a wide string names
PathOf(w) == CHOOSE p \in LinkPaths : utf16_encode(p) = w

\* a variant that does not look at CreateDirectoryW's return value
CJ_CreateDirectory_Unchecked ==
    /\ pc = "create_junction"
    /\ link_wide' = utf16_encode(opts.src)
    /\ target_wide' = utf16_encode(opts.dst)
    /\ \E success \in BOOLEAN :
          /\ success => fs[PathOf(link_wide')] = "absent"
          /\ calls' = Append(calls, [op |-> "CreateDirectoryW", ok |-> success])
          /\ fs' = IF success THEN [fs EXCEPT ![PathOf(link_wide')] = "directory"] ELSE fs
          /\ pc' = "reparse_data"
          /\ result' = result
    /\ UNCHANGED <<opts, platform, link_type, reparse_data, handle, exit_code, output>>

CJ_CreateDirectory ==
    /\ pc = "create_junction"
    /\ link_wide' = utf16_encode(opts.src)
    /\ target_wide' = utf16_encode(opts.dst)
    /\ \E success \in BOOLEAN :
          /\ success => fs[PathOf(link_wide')] = "absent"
          /\ calls' = Append(calls, [op |-> "CreateDirectoryW", ok |-> success])
          /\ IF success
             THEN /\ fs' = [fs EXCEPT ![PathOf(link_wide')] = "directory"]
                  /\ pc' = "reparse_data"
                  /\ result' = result
             ELSE /\ fs' = fs
                  /\ result' = Err("Failed to create directory for junction point", 2)
                  /\ pc' = "main_report"
    /\ UNCHANGED <<opts, platform, link_type, reparse_data, handle, exit_code, output>>

CJ_CreateReparseData ==
    /\ pc = "reparse_data"
    /\ LET r == create_reparse_data(target_wide)
       IN  IF r.ok
           THEN /\ reparse_data' = r.buffer
                /\ pc' = "open"
                /\ result' = result
           ELSE /\ result' = Err(r.message, r.exit_code)
                /\ pc' = "main_report"
                /\ reparse_data' = reparse_data
    /\ UNCHANGED <<opts, platform, fs, link_type, link_wide, target_wide,
                   handle, exit_code, output, calls>>

\* a variant that goes on to the device-control call when the open failed
CJ_OpenHandle_Unchecked ==
    /\ pc = "open"
    /\ \E success \in BOOLEAN :
          /\ calls' = Append(calls, [op |-> "open", ok |-> success])
          /\ handle' = IF success THEN "open" ELSE handle
          /\ pc' = "device_io_control"
          /\ result' = result
    /\ UNCHANGED <<opts, platform, fs, link_type, link_wide, target_wide,
                   reparse_data, exit_code, output>>

CJ_OpenHandle ==
    /\ pc = "open"
    /\ \E success \in BOOLEAN :
          /\ calls' = Append(calls, [op |-> "open", ok |-> success])
          /\ IF success
             THEN /\ handle' = "open"
                  /\ pc' = "device_io_control"
                  /\ result' = result
             ELSE /\ handle' = handle
                  /\ result' = Err("Failed to open junction directory", 2)
                  /\ pc' = "main_report"
    /\ UNCHANGED <<opts, platform, fs, link_type, link_wide, target_wide,
                   reparse_data, exit_code, output>>

\* a variant that removes the directory when the device-control call fails
CJ_DeviceIoControl_Rollback ==
    /\ pc = "device_io_control"
    /\ \E success \in BOOLEAN :
          /\ calls' = Append(calls, [op |-> "DeviceIoControl", ok |-> success])
          /\ IF success
             THEN /\ fs' = [fs EXCEPT ![opts.src] = "junction"]
                  /\ result' = Ok
             ELSE /\ fs' = [fs EXCEPT ![opts.src] = "absent"]
                  /\ result' = Err("Failed to set reparse point for junction", 2)
    /\ handle' = "closed"
    /\ pc' = "main_report"
    /\ UNCHANGED <<opts, platform, link_type, link_wide, target_wide,
                   reparse_data, exit_code, output>>

\* a variant that holds a raw handle, closed by hand on the success path only
CJ_DeviceIoControl_LeakOnError ==
    /\ pc = "device_io_control"
    /\ \E success \in BOOLEAN :
          /\ calls' = Append(calls, [op |-> "DeviceIoControl", ok |-> success])
          /\ IF success
             THEN /\ fs' = [fs EXCEPT ![opts.src] = "junction"]
                  /\ result' = Ok
                  /\ handle' = "closed"
             ELSE /\ fs' = fs
                  /\ result' = Err("Failed to set reparse point for junction", 2)
                  /\ handle' = handle
    /\ pc' = "main_report"
    /\ UNCHANGED <<opts, platform, link_type, link_wide, target_wide,
                   reparse_data, exit_code, output>>

\* DeviceIoControl(FSCTL_SET_REPARSE_POINT), then the return: `handle` goes
\* out of scope on both paths and the File is dropped, which closes it.
CJ_DeviceIoControl ==
    /\ pc = "device_io_control"
    /\ \E success \in BOOLEAN :
          /\ calls' = Append(calls, [op |-> "DeviceIoControl", ok |-> success])
          /\ IF success
             THEN /\ fs' = [fs EXCEPT ![opts.src] = "junction"]
                  /\ result' = Ok
             ELSE /\ fs' = fs
                  /\ result' = Err("Failed to set reparse point for junction", 2)
    /\ handle' = "closed"
    /\ pc' = "main_report"
    /\ UNCHANGED <<opts, platform, link_type, link_wide, target_wide,
                   reparse_data, exit_code, output>>

(***************************************************************************)
(* main, second half: report the Result of create_link and exit.           *)
(***************************************************************************)
Main_Report ==
    /\ pc = "main_report"
    /\ IF result.ok
       THEN /\ output' = Append(output, [stream |-> "stdout", text |-> "created at source"])
            /\ exit_code' = 0
       ELSE /\ output' = Append(output, [stream |-> "stderr", text |-> result.message])
            /\ exit_code' = result.exit_code
    /\ pc' = "exited"
    /\ UNCHANGED <<opts, platform, fs, link_type, link_wide, target_wide,
                   reparse_data, handle, result, calls>>

Next ==
    \/ Main_ParseLinkType
    \/ CreateLink_Unsupported
    \/ CreateLink_Primitive
    \/ CreateLink_Junction
    \/ CJ_CreateDirectory
    \/ CJ_CreateReparseData
    \/ CJ_OpenHandle
    \/ CJ_DeviceIoControl
    \/ Main_Report

Spec == Init /\ [][Next]_vars

\* single-threaded and synchronous: a run that can take a step takes it
FairSpec == Spec /\ WF_vars(Next)

(***************************************************************************)
(* Properties                                                              *)
(***************************************************************************)
\* the buffer has been built
Built == reparse_data # <<>>

\* n: code units of the target's wide encoding, terminator excluded
TargetUnits == Len(target_wide) - 1

DeclaredDataLen == u16_from_le_bytes(reparse_data, 4)

DeclaredNameLen == u16_from_le_bytes(reparse_data, 10)

\* nothing at a link path was made by this run
NothingCreated == \A p \in LinkPaths : fs[p] \in {"absent", "existing"}

SubstituteName(b) ==
    [k \in 1..(u16_from_le_bytes(b, 10) \div 2) |->
        u16_from_le_bytes(b, 12 + u16_from_le_bytes(b, 8) + 2 * (k - 1))]

\* C2: for the target create_junction hands to create_reparse_data, reading
\* the substitute-name region of the returned buffer (declared offset 0,
\* declared length in bytes) back as little-endian 16-bit units gives the
\* wide encoding of the target without its terminator.
C2_RoundTrip ==
    pc = "reparse_data" =>
        LET r == create_reparse_data(target_wide)
        IN  /\ r.ok
            /\ u16_from_le_bytes(r.buffer, 8) = 0
            /\ SubstituteName(r.buffer) = SubSeq(target_wide, 1, TargetUnits)

\* C3: a target whose declared lengths do not fit 16 bits is refused with
\* TargetPathTooLong and no buffer is produced; a buffer that is produced
\* holds untruncated lengths.
C3_TooLongRejected ==
    LET overflow == \/ 8 + TargetUnits * 4 + 4 > 65535
                    \/ TargetUnits * 2 > 65535
        built_step_done == /\ link_type = "Junction"
                           /\ Len(calls) >= 1
                           /\ calls[1].ok
                           /\ pc # "reparse_data"
    IN  /\ (built_step_done /\ overflow) =>
               /\ ~result.ok
               /\ result.message = "TargetPathTooLong"
               /\ ~Built
        /\ Built =>
               /\ DeclaredDataLen = 8 + TargetUnits * 4 + 4
               /\ DeclaredNameLen = TargetUnits * 2

\* C4: when CreateDirectoryW fails the run ends as a junction failure with
\* exit code 2, neither the open nor the device-control call is made, and
\* nothing has been created.
C4_MkdirFailure ==
    (Len(calls) >= 1 /\ calls[1] = [op |-> "CreateDirectoryW", ok |-> FALSE]) =>
        /\ Len(calls) = 1
        /\ handle = "none"
        /\ NothingCreated
        /\ pc \in {"main_report", "exited"}
        /\ result = Err("Failed to create directory for junction point", 2)
        /\ pc = "exited" => exit_code = 2

\* the link path already exists, directory creation failed, the run is over
C4_Witness ==
    /\ pc = "exited"
    /\ fs[opts.src] = "existing"
    /\ calls = <<[op |-> "CreateDirectoryW", ok |-> FALSE]>>
    /\ exit_code = 2

\* C5: with no link-type flag, or with two or more, the run is rejected
\* with exit code 1 before any platform call: no primitive is called and
\* nothing is created.
C5_FlagCountRejected ==
    FlagCount(opts) # 1 =>
        /\ calls = <<>>
        /\ NothingCreated
        /\ pc \in {"main", "exited"}
        /\ pc = "exited" => exit_code = 1

\* --soft together with --hard, after the run
C5_Witness ==
    /\ pc = "exited"
    /\ opts.soft /\ opts.hard
    /\ exit_code = 1

\* C6: when directory creation and open succeed and the device-control call
\* fails, create_junction returns the set-reparse-point failure with exit
\* code 2 and the directory stays at link_path as a plain directory.
C6_IoctlFailure ==
    (Len(calls) = 3 /\ calls[3] = [op |-> "DeviceIoControl", ok |-> FALSE]) =>
        /\ calls[1] = [op |-> "CreateDirectoryW", ok |-> TRUE]
        /\ calls[2] = [op |-> "open", ok |-> TRUE]
        /\ result = Err("Failed to set reparse point for junction", 2)
        /\ fs[opts.src] = "directory"
        /\ pc = "exited" => exit_code = 2

\* the device-control call failed and the run is over
C6_Witness ==
    /\ pc = "exited"
    /\ Len(calls) = 3
    /\ ~calls[3].ok
    /\ fs[opts.src] = "directory"

\* the one kind the flags select, when exactly one is set
SelectedKind ==
    IF opts.soft THEN "Soft"
    ELSE IF opts.hard THEN "Hard"
    ELSE IF opts.symbolic THEN "Symbolic"
    ELSE "Junction"

\* what a kind leaves at the link path when it succeeds
EntryOfKind(k) ==
    IF k = "Soft" THEN "symlink_dir"
    ELSE IF k = "Hard" THEN "hard_link"
    ELSE IF k = "Symbolic" THEN "symlink_file"
    ELSE "junction"

\* the platform calls a kind may make
CallsOfKind(k) ==
    IF k = "Junction" THEN {"CreateDirectoryW", "open", "DeviceIoControl"}
    ELSE {EntryOfKind(k)}

FailureCodeOfKind(k) ==
    IF k = "Junction" THEN 2
    ELSE IF k = "Symbolic" THEN 3
    ELSE IF k = "Hard" THEN 4
    ELSE 5

\* C7: the exit code follows from the outcome of the selected kind alone:
\* 1 for no or several flags, 7 off Windows, 0 exactly when the selected
\* kind's link now exists, else that kind's own code (junction 2, symbolic
\* 3, hard 4, soft 5); only the selected kind's primitives are ever called
\* and no other kind of link is created.
C7_ExitCode ==
    /\ pc = "exited" =>
          exit_code =
             IF FlagCount(opts) # 1 THEN 1
             ELSE IF platform # "windows" THEN 7
             ELSE IF fs[opts.src] = EntryOfKind(SelectedKind) THEN 0
             ELSE FailureCodeOfKind(SelectedKind)
    /\ \A i \in 1..Len(calls) : calls[i].op \in CallsOfKind(SelectedKind)
    /\ \A p \in LinkPaths :
          fs[p] \in {"absent", "existing", "directory", EntryOfKind(SelectedKind)}
    /\ \A p \in LinkPaths : fs[p] = "directory" => SelectedKind = "Junction"

\* a failed hard link, after the run
C7_Witness ==
    /\ pc = "exited"
    /\ link_type = "Hard"
    /\ calls = <<[op |-> "hard_link", ok |-> FALSE]>>
    /\ exit_code = 4

\* C8: when the process reports its result (and from then on) no directory
\* handle opened by the run is still open.
C8_HandleReleased ==
    pc \in {"main_report", "exited"} => handle # "open"

\* the handle was opened, the device-control call failed, the error is
\* about to be reported
C8_Witness ==
    /\ pc = "main_report"
    /\ handle = "closed"
    /\ ~result.ok
    /\ Len(calls) = 3

JunctionSteps == <<"CreateDirectoryW", "open", "DeviceIoControl">>

\* the steps made so far are the first ones of the sequence, in order, each
\* once, and every step before the last one made has succeeded
JunctionOrder ==
    link_type = "Junction" =>
        /\ Len(calls) <= 3
        /\ \A i \in 1..Len(calls) :
              /\ calls[i].op = JunctionSteps[i]
              /\ i < Len(calls) => calls[i].ok

\* status 0 exactly when all three steps were made and succeeded
JunctionEnd ==
    (link_type = "Junction" /\ pc = "exited") =>
        /\ exit_code >= 0
        /\ exit_code = 0 <=> (Len(calls) = 3 /\ \A i \in 1..3 : calls[i].ok)

\* C9: a junction run terminates; its steps are create directory, open
\* handle, set reparse point in that order, each at most once and only
\* after the earlier ones succeeded; it ends with status 0 exactly when all
\* three succeeded and with a non-zero status otherwise.
C9_JunctionRun ==
    /\ [](JunctionOrder /\ JunctionEnd)
    /\ (link_type = "Junction") ~> (pc = "exited")

\* a junction run that made all three steps and ended with status 0
C9_Witness ==
    /\ link_type = "Junction"
    /\ pc = "exited"
    /\ Len(calls) = 3
    /\ exit_code = 0
    /\ fs[opts.src] = "junction"

\* C10: the declared reparse-data length equals the number of bytes after
\* the 8-byte header, the tag is 0xA0000003 and the reserved field is 0.
C10_HeaderInvariant ==
    Built =>
        /\ DeclaredDataLen = Len(reparse_data) - 8
        /\ SubSeq(reparse_data, 1, 4) = <<3, 0, 0, 160>>
        /\ u16_from_le_bytes(reparse_data, 6) = 0

=============================================================================
